---- MODULE Spec2Model ----
(***************************************************************************)
(* Chest lifecycle engine of dropply (apps/api): sessions and files in the  *)
(* metadata store, objects and multipart uploads in the R2 blob store, the  *)
(* three kinds of signed bearer tokens, the request handlers of             *)
(* routes/chest.ts, routes/retrieve.ts and routes/download.ts, and the      *)
(* scheduled sweep of cron/cleanup.ts.                                      *)
(*                                                                         *)
(* Every handler is split at its awaits on the two stores, so requests and *)
(* sweeps interleave exactly where the runtime lets them.  Time is counted  *)
(* in ticks of 24 hours; every duration of the code is a whole number of    *)
(* days, and the code's comparisons (<, >) are kept as written.             *)
(***************************************************************************)
EXTENDS Integers, Sequences, FiniteSets, TLC

(* ------------------------------ bounds -------------------------------- *)
MaxSessions == 2
OneChest == 1
MaxFiles == 2
MaxClock == 3
MaxCodes == 2
MaxParts == 1
\* every body and every declared fileSize is FileLen bytes long, except
\* where a specification draws lengths from Lengths
FileLen == 1
MaxLen == 2

(* --------------------------- program constants ------------------------ *)
UPLOAD_TTL == 1
MULTIPART_TTL == 2
ABANDON_AGE == 2
CHEST_PERMANENT_TTL == 365
MAX_PART_NUMBER == 10000
STEPS_PER_TICK == 2880
TOTP_WINDOW == 1

SessionIds == 1..MaxSessions
FileIds == 1..MaxFiles
\* const chars = 'ABCDEFGHIJKLMNOPQRSTUVWXYZ0123456789'
chars ==
  <<"A", "B", "C", "D", "E", "F", "G", "H", "I", "J", "K", "L", "M",
    "N", "O", "P", "Q", "R", "S", "T", "U", "V", "W", "X", "Y", "Z",
    "0", "1", "2", "3", "4", "5", "6", "7", "8", "9">>

\* Some of the six-character strings generateRetrievalCode can draw
generateRetrievalCode ==
  {<<chars[1], chars[2], chars[3], chars[27], chars[28], chars[i]>> : i \in 1..MaxCodes}

Codes == generateRetrievalCode

\* Path parameters a client can send that are not of the generated form:
\* too long, lower case, a character outside the alphabet, too short
Malformed ==
  {<<"I", "N", "V", "A", "L", "I", "D">>,
   <<"a", "b", "c", "0", "1", "a">>,
   <<"A", "B", "-", "0", "1", "A">>,
   <<"A", "B", "C", "0", "1">>}

\* Every retrieval code a client sends in the model
RetrievalCodes == Codes \cup Malformed
PartNumbers == 1..MaxParts
Lengths == 1..MaxLen
Workers == {"w1", "w2"}
Reapers == {"r1", "r2"}

(* A nullable column or value: <<>> is NULL, <<v>> is the value v. *)
NULL == <<>>
Some(v) == <<v>>
IsNull(x) == x = <<>>
Val(x) == x[1]

VARIABLES
  now,        \* the wall clock, in ticks
  sessions,   \* sessions table: id -> row
  files,      \* files table: id -> row
  blobs,      \* R2 objects: set of keys <<sessionId, fileId>>
  mpu,        \* R2 multipart uploads in progress: uploadId -> [key, parts]
  nextFile,   \* number of file ids generateUUID has handed out
  tokens,     \* every token signed so far with JWT_SECRET
  req,        \* the request each worker is handling
  reply,      \* the response sent by the step just taken, if it sent one
  sweep,      \* the state of each cleanup run
  stored      \* R2 object bodies: key -> length in bytes

vars == <<now, sessions, files, blobs, mpu, nextFile, tokens, req, reply, sweep, stored>>

(* ------------------------------ lib/utils ------------------------------ *)

\* An expiry computed without the permanent case
calculateExpiryNoPermanent(validityDays, t) == Some(t + validityDays)

\* calculateExpiry(validityDays), evaluated at instant t
calculateExpiry(validityDays, t) ==
  IF validityDays = -1 THEN NULL ELSE Some(t + validityDays)

\* createUploadJWT / createChestJWT / createMultipartJWT, signed at instant t
\* An upload token that outlives the age at which a chest counts as abandoned
createUploadJWTLong(sessionId, t) ==
  [type |-> "upload", sessionId |-> sessionId, exp |-> t + UPLOAD_TTL + ABANDON_AGE]

createUploadJWT(sessionId, t) ==
  [type |-> "upload", sessionId |-> sessionId, exp |-> t + UPLOAD_TTL]

\* A chest token that always lives a year
createChestJWTYear(sessionId, expiryTimestamp, t) ==
  [type |-> "chest", sessionId |-> sessionId, exp |-> t + CHEST_PERMANENT_TTL]

createChestJWT(sessionId, expiryTimestamp, t) ==
  [type |-> "chest", sessionId |-> sessionId,
   exp |-> IF IsNull(expiryTimestamp) THEN t + CHEST_PERMANENT_TTL
           ELSE Val(expiryTimestamp)]

createMultipartJWT(sessionId, fileId, uploadId, fileSize, t) ==
  [type |-> "multipart", sessionId |-> sessionId, fileId |-> fileId,
   uploadId |-> uploadId, fileSize |-> fileSize, exp |-> t + MULTIPART_TTL]

\* A request without an Authorization header
NoToken == [type |-> "missing"]

\* verifyJWT at instant t: the signature is one this server made, and the
\* token is rejected when Date.now()/1000 > payload.exp
verifyJWT(tok, t) == tok \in tokens /\ ~(t > tok.exp)

\* A verification that does not look at the payload's type
verifyUploadJWTAnyType(tok, t) == verifyJWT(tok, t)

verifyUploadJWT(tok, t) == verifyJWT(tok, t) /\ tok.type = "upload"
verifyChestJWT(tok, t) == verifyJWT(tok, t) /\ tok.type = "chest"
verifyMultipartJWT(tok, t) == verifyJWT(tok, t) /\ tok.type = "multipart"

(* --------------------------- metadata store ---------------------------- *)

\* withNotDeleted(table, cond)
notDeleted(row) == ~row.isDeleted

\* A select of the session that leaves out uploadComplete = 0
OpenSessionAnyState(s) ==
  /\ s \in DOMAIN sessions
  /\ notDeleted(sessions[s])

\* A where clause that names the row by its id alone
OpenSessionById(s) == s \in DOMAIN sessions

\* select from sessions where id = s and uploadComplete = 0 and not deleted
OpenSession(s) ==
  /\ s \in DOMAIN sessions
  /\ notDeleted(sessions[s])
  /\ ~sessions[s].uploadComplete

\* select from files where sessionId = s and not deleted
SessionFiles(s) ==
  {f \in DOMAIN files : files[f].sessionId = s /\ notDeleted(files[f])}

\* A store without the unique index: every code is accepted
CodeIsFreeAlways(s, code) == TRUE

\* the unique index idx_sessions_retrieval_code: no other row holds the code
CodeIsFree(s, code) ==
  \A o \in DOMAIN sessions \ {s} : sessions[o].retrievalCode # Some(code)

(* ------------------------------ requests ------------------------------- *)

Idle == [op |-> "none", pc |-> "idle"]
Free(w) == req[w] = Idle
NoReply == [op |-> "none", status |-> 0]

\* The handler answers and the worker is free again.
Finish(w, response) == req' = [req EXCEPT ![w] = Idle] /\ reply' = response

\* The handler awaits its next store operation.
Await(w, r) == req' = [req EXCEPT ![w] = r] /\ reply' = NoReply

\* A step of the clock or of a sweep answers no request.
Silent == reply' = NoReply /\ UNCHANGED req

\* The tokens a client can put in an Authorization header: any token the
\* server has handed out, or none.
Presentable == tokens \cup {NoToken}

\* A bearer check that never compares the token's session with the path
UploadAuthAnySession(tok, sessionId, t) ==
  IF tok = NoToken THEN 401
  ELSE IF ~verifyUploadJWT(tok, t) THEN 401
  ELSE 0

\* Bearer check of the upload-token endpoints (upload, complete,
\* multipart/create): 0 when the request may proceed, else the status returned.
UploadAuth(tok, sessionId, t) ==
  IF tok = NoToken THEN 401
  ELSE IF ~verifyUploadJWT(tok, t) THEN 401
  ELSE IF tok.sessionId # sessionId THEN 400
  ELSE 0

\* A bearer check that never compares the token's session and file with the path
MultipartAuthAnyPath(tok, sessionId, fileId, t) ==
  IF tok = NoToken THEN 401
  ELSE IF ~verifyMultipartJWT(tok, t) THEN 401
  ELSE 0

\* Bearer check of the multipart-token endpoints (part upload, multipart complete)
MultipartAuth(tok, sessionId, fileId, t) ==
  IF tok = NoToken THEN 401
  ELSE IF ~verifyMultipartJWT(tok, t) THEN 401
  ELSE IF tok.sessionId # sessionId \/ tok.fileId # fileId THEN 403
  ELSE 0

\* Bearer check of the download endpoint
ChestAuth(tok, t) ==
  IF tok = NoToken THEN 401
  ELSE IF ~verifyChestJWT(tok, t) THEN 401
  ELSE 0

\* A files row as the upload handlers insert it
FileRow(sessionId, fileSize) ==
  [sessionId |-> sessionId, fileSize |-> fileSize, isDeleted |-> FALSE]

\* An insert that writes the table anew from the request's own rows
InsertFilesAlone(ids, sessionId, fileSize) ==
  [f \in ids |-> FileRow(sessionId, fileSize)]

InsertFiles(ids, sessionId, fileSize) ==
  [f \in DOMAIN files \cup ids |->
     IF f \in ids THEN FileRow(sessionId, fileSize) ELSE files[f]]

\* R2 put / complete: the object under key now has this body
Store(key, length) ==
  [k \in DOMAIN stored \cup {key} |-> IF k = key THEN length ELSE stored[k]]

Init ==
  /\ now = 0
  /\ sessions = <<>>
  /\ files = <<>>
  /\ blobs = {}
  /\ mpu = <<>>
  /\ nextFile = 0
  /\ tokens = {}
  /\ req = [w \in Workers |-> Idle]
  /\ reply = NoReply
  /\ sweep = [r \in Reapers |-> [pc |-> "idle", todo |-> <<>>, listed |-> {}]]
  /\ stored = <<>>

\* The clock advances by one tick. A request or a sweep run lasts less than a
\* tick: the clock passes at most one tick boundary while it is in flight.
Tick ==
  /\ now < MaxClock
  /\ \A w \in Workers : IF Free(w) THEN TRUE ELSE req[w].since = now
  /\ \A r \in Reapers : IF sweep[r].pc = "idle" THEN TRUE ELSE sweep[r].since = now
  /\ now' = now + 1
  /\ Silent
  /\ UNCHANGED <<sessions, files, blobs, mpu, nextFile, tokens, sweep, stored>>

(* POST /chest -------------------------------------------------------------- *)

\* Math.floor(Date.now() / 1000 / 30) at the start of tick t
currentStep(t) == t * STEPS_PER_TICK

\* The six-digit code of a secret at a time step. The HMAC-SHA1 of the source
\* is replaced by a linear mix; the truncation to six digits is kept.
generateTOTP(secret, timeStep) == (secret * 7919 + timeStep * 104729) % 1000000

\* A check that also accepts the codes two steps away
verifyTOTPWide(token, secret, t) ==
  \E i \in -(TOTP_WINDOW + 1)..(TOTP_WINDOW + 1) :
    token = generateTOTP(secret, currentStep(t) + i)

verifyTOTP(token, secret, t) ==
  \E i \in -TOTP_WINDOW..TOTP_WINDOW : token = generateTOTP(secret, currentStep(t) + i)

\* secretsEnv is modelled as the set of secrets parseTOTPSecrets reads from it
verifyAnyTOTP(token, secretsEnv, t) ==
  \E secret \in secretsEnv : verifyTOTP(token, secret, t)

\* The deployment's configuration: REQUIRE_TOTP and the secrets of TOTP_SECRETS
\* (none when the variable is unset)
Env(requireTOTP, secrets) == [REQUIRE_TOTP |-> requireTOTP, TOTP_SECRETS |-> secrets]

Ungated == Env(FALSE, {})

\* The status of the TOTP gate of POST /chest, 0 when the request passes
TOTPGate(env, totpToken, t) ==
  IF ~env.REQUIRE_TOTP THEN 0
  ELSE IF IsNull(totpToken) THEN 401
  ELSE IF env.TOTP_SECRETS = {} THEN 500
  ELSE IF ~verifyAnyTOTP(Val(totpToken), env.TOTP_SECRETS, t) THEN 401
  ELSE 0

CreateChest(w, limit, env, totpToken) ==
  /\ Free(w)
  /\ LET gate == TOTPGate(env, totpToken, now)
         sessionId == Cardinality(DOMAIN sessions) + 1
         uploadToken == createUploadJWT(sessionId, now)
     IN IF gate # 0
        THEN /\ Finish(w, [op |-> "createChest", status |-> gate, sessionId |-> 0])
             /\ UNCHANGED <<sessions, tokens>>
        ELSE /\ Cardinality(DOMAIN sessions) < limit
             /\ tokens' = tokens \cup {uploadToken}
             /\ sessions' = [s \in DOMAIN sessions \cup {sessionId} |->
                  IF s = sessionId
                  THEN [retrievalCode |-> NULL, uploadComplete |-> FALSE,
                        expiresAt |-> NULL, createdAt |-> now, isDeleted |-> FALSE]
                  ELSE sessions[s]]
             /\ Finish(w, [op |-> "createChest", status |-> 200, sessionId |-> sessionId])
  /\ UNCHANGED <<now, files, blobs, mpu, nextFile, sweep, stored>>

(* POST /chest/:sessionId/upload ------------------------------------------ *)

UploadReply(sessionId, status, uploadedFiles) ==
  [op |-> "upload", status |-> status, sessionId |-> sessionId,
   uploadedFiles |-> uploadedFiles]

\* Bearer check, then the select of the open session; the n form parts get
\* their file ids and the blob puts and the batched insert are issued.
UploadBegin(w, sessionId, tok, n) ==
  /\ Free(w)
  /\ nextFile + n <= MaxFiles
  /\ LET auth == UploadAuth(tok, sessionId, now)
         ids == (nextFile + 1)..(nextFile + n)
     IN IF auth # 0
        THEN Finish(w, UploadReply(sessionId, auth, {})) /\ UNCHANGED nextFile
        ELSE IF ~OpenSession(sessionId)
        THEN Finish(w, UploadReply(sessionId, 404, {})) /\ UNCHANGED nextFile
        ELSE /\ Await(w, [op |-> "upload", pc |-> "io", since |-> now, sessionId |-> sessionId,
                          fileIds |-> ids, puts |-> ids, inserted |-> FALSE])
             /\ nextFile' = nextFile + n
  /\ UNCHANGED <<now, sessions, files, blobs, mpu, tokens, sweep, stored>>

\* Promise.all resolves once every put and the insert have: the handler
\* answers 200 with the uploaded files.
UploadSettle(w, r) ==
  IF r.inserted /\ r.puts = {}
  THEN Finish(w, UploadReply(r.sessionId, 200, r.fileIds))
  ELSE Await(w, r)

\* db.insert(files).values(fileInserts)
UploadInsert(w) ==
  /\ req[w].op = "upload" /\ req[w].pc = "io" /\ ~req[w].inserted
  /\ files' = InsertFiles(req[w].fileIds, req[w].sessionId, FileLen)
  /\ UploadSettle(w, [req[w] EXCEPT !.inserted = TRUE])
  /\ UNCHANGED <<now, sessions, blobs, mpu, nextFile, tokens, sweep, stored>>

\* R2_STORAGE.put(`${sessionId}/${fileId}`, ...) resolves
UploadPut(w, f) ==
  /\ req[w].op = "upload" /\ req[w].pc = "io" /\ f \in req[w].puts
  /\ blobs' = blobs \cup {<<req[w].sessionId, f>>}
  /\ stored' = Store(<<req[w].sessionId, f>>, FileLen)
  /\ UploadSettle(w, [req[w] EXCEPT !.puts = @ \ {f}])
  /\ UNCHANGED <<now, sessions, files, mpu, nextFile, tokens, sweep>>

\* R2_STORAGE.put(...) rejects: Promise.all rejects with it and the catch
\* answers 500; what the request had not yet written is never written.
UploadPutFail(w, f) ==
  /\ req[w].op = "upload" /\ req[w].pc = "io" /\ f \in req[w].puts
  /\ Finish(w, UploadReply(req[w].sessionId, 500, {}))
  /\ UNCHANGED <<now, sessions, files, blobs, mpu, nextFile, tokens, sweep, stored>>

(* POST /chest/:sessionId/complete ------------------------------------------ *)

\* The validityDays and fileIds a client submits
ValidityInputs == {-1, 1}
SeqsUpTo(S, n) == UNION {[1..k -> S] : k \in 0..n}
FileIdInputs == SeqsUpTo(FileIds, MaxFiles)

SealReply(sessionId, status, retrievalCode, expiryDate) ==
  [op |-> "seal", status |-> status, sessionId |-> sessionId,
   retrievalCode |-> retrievalCode, expiryDate |-> expiryDate]

\* The ownership check: the session's non-deleted files are counted and the
\* count is compared with fileIds.length
OwnershipOk(sessionId, fileIds) ==
  Cardinality(SessionFiles(sessionId)) = Len(fileIds)

\* Bearer check, then the select of the session's files
SealBegin(w, sessionId, tok, fileIds, validityDays) ==
  /\ Free(w)
  /\ LET auth == UploadAuth(tok, sessionId, now)
     IN IF auth # 0 THEN Finish(w, SealReply(sessionId, auth, NULL, NULL))
        ELSE IF ~OwnershipOk(sessionId, fileIds)
        THEN Finish(w, SealReply(sessionId, 400, NULL, NULL))
        ELSE Await(w, [op |-> "seal", pc |-> "update", since |-> now, sessionId |-> sessionId,
                       fileIds |-> fileIds, validityDays |-> validityDays])
  /\ UNCHANGED <<now, sessions, files, blobs, mpu, nextFile, tokens, sweep, stored>>

\* A handler that answers success whatever its update did
SealStatusAlwaysOk(rows, thrown) == 200

\* The handler's answer once its update has run: rows is the number of rows
\* the update changed, thrown whether the statement raised an error
SealStatus(rows, thrown) == IF thrown THEN 500 ELSE 200

\* A set clause that marks the row complete without storing the code
SealedRowNoCode(row, code, expiryDate) ==
  [row EXCEPT !.uploadComplete = TRUE, !.expiresAt = expiryDate]

\* The set clause of the seal's update: retrievalCode, uploadComplete = 1, expiresAt
SealedRow(row, code, expiryDate) ==
  [row EXCEPT !.retrievalCode = Some(code), !.uploadComplete = TRUE,
              !.expiresAt = expiryDate]

\* generateRetrievalCode, calculateExpiry, then
\* update sessions set ... where id = sessionId and uploadComplete = 0 and not deleted
SealUpdate(w, code) ==
  /\ req[w].op = "seal" /\ req[w].pc = "update"
  /\ LET sessionId == req[w].sessionId
         expiryDate == calculateExpiry(req[w].validityDays, now)
         matches == OpenSession(sessionId)
         thrown == matches /\ ~CodeIsFree(sessionId, code)
         rows == IF matches /\ ~thrown THEN 1 ELSE 0
         status == SealStatus(rows, thrown)
     IN /\ sessions' =
             IF rows = 1
             THEN [sessions EXCEPT ![sessionId] = SealedRow(@, code, expiryDate)]
             ELSE sessions
        /\ Finish(w, IF status = 200
                     THEN SealReply(sessionId, 200, Some(code), expiryDate)
                     ELSE SealReply(sessionId, status, NULL, NULL))
  /\ UNCHANGED <<now, files, blobs, mpu, nextFile, tokens, sweep, stored>>

(* POST /chest/:sessionId/multipart/create ---------------------------------- *)

MpCreateReply(sessionId, status, fileId) ==
  [op |-> "mpCreate", status |-> status, sessionId |-> sessionId, fileId |-> fileId]

\* Bearer check, then the select of the open session
MpCreateBegin(w, sessionId, tok, fileSize) ==
  /\ Free(w)
  /\ nextFile < MaxFiles
  /\ LET auth == UploadAuth(tok, sessionId, now)
     IN IF auth # 0 THEN Finish(w, MpCreateReply(sessionId, auth, NULL))
        ELSE IF ~OpenSession(sessionId)
        THEN Finish(w, MpCreateReply(sessionId, 404, NULL))
        ELSE Await(w, [op |-> "mpCreate", pc |-> "create", since |-> now,
                       sessionId |-> sessionId, fileSize |-> fileSize])
  /\ UNCHANGED <<now, sessions, files, blobs, mpu, nextFile, tokens, sweep, stored>>

\* generateUUID, R2_STORAGE.createMultipartUpload, createMultipartJWT.
\* The upload id R2 returns is one per call; the file id stands for it.
MpCreateFinish(w) ==
  /\ req[w].op = "mpCreate" /\ req[w].pc = "create"
  /\ nextFile < MaxFiles
  /\ LET sessionId == req[w].sessionId
         fileId == nextFile + 1
         uploadId == fileId
     IN /\ nextFile' = fileId
        /\ mpu' = [u \in DOMAIN mpu \cup {uploadId} |->
             IF u = uploadId
             THEN [key |-> <<sessionId, fileId>>, parts |-> {}, length |-> <<>>]
             ELSE mpu[u]]
        /\ tokens' = tokens \cup
             {createMultipartJWT(sessionId, fileId, uploadId, req[w].fileSize, now)}
        /\ Finish(w, MpCreateReply(sessionId, 200, Some(fileId)))
  /\ UNCHANGED <<now, sessions, files, blobs, sweep, stored>>

\* resumeMultipartUpload(key, uploadId) finds an upload in progress under that key
Resumable(key, uploadId) == uploadId \in DOMAIN mpu /\ mpu[uploadId].key = key

(* PUT /chest/:sessionId/multipart/:fileId/part/:partNumber ------------------ *)

PartReply(sessionId, fileId, status) ==
  [op |-> "part", status |-> status, sessionId |-> sessionId, fileId |-> fileId]

\* multipartUpload.uploadPart(partNumber, body): the part replaces an earlier
\* part of the same number
PutPart(upload, partNumber, byteLength) ==
  [upload EXCEPT
     !.parts = @ \cup {partNumber},
     !.length = [p \in DOMAIN @ \cup {partNumber} |->
                   IF p = partNumber THEN byteLength ELSE @[p]]]

\* A part handler that hands any part number to the blob store
UploadPartAnyNumber(w, sessionId, fileId, tok, partNumber, byteLength) ==
  /\ Free(w)
  /\ LET auth == MultipartAuth(tok, sessionId, fileId, now)
         emptyBody == byteLength = 0
         ok == auth = 0 /\ ~emptyBody /\ Resumable(<<sessionId, fileId>>, tok.uploadId)
     IN /\ mpu' = IF ok
                  THEN [mpu EXCEPT ![tok.uploadId] = PutPart(@, partNumber, byteLength)]
                  ELSE mpu
        /\ Finish(w, PartReply(sessionId, fileId,
             IF auth # 0 THEN auth
             ELSE IF emptyBody THEN 400
             ELSE IF ok THEN 200 ELSE 500))
  /\ UNCHANGED <<now, sessions, files, blobs, nextFile, tokens, sweep, stored>>

\* Bearer check, the part-number check, the body check, then
\* multipartUpload.uploadPart
UploadPart(w, sessionId, fileId, tok, partNumber, byteLength) ==
  /\ Free(w)
  /\ LET auth == MultipartAuth(tok, sessionId, fileId, now)
         badNumber == partNumber < 1 \/ partNumber > MAX_PART_NUMBER
         emptyBody == byteLength = 0
         ok == /\ auth = 0 /\ ~badNumber /\ ~emptyBody
               /\ Resumable(<<sessionId, fileId>>, tok.uploadId)
     IN /\ mpu' = IF ok
                  THEN [mpu EXCEPT ![tok.uploadId] = PutPart(@, partNumber, byteLength)]
                  ELSE mpu
        /\ Finish(w, PartReply(sessionId, fileId,
             IF auth # 0 THEN auth
             ELSE IF badNumber \/ emptyBody THEN 400
             ELSE IF ok THEN 200 ELSE 500))
  /\ UNCHANGED <<now, sessions, files, blobs, nextFile, tokens, sweep, stored>>

(* POST /chest/:sessionId/multipart/:fileId/complete ------------------------- *)

MpCompleteReply(sessionId, fileId, status) ==
  [op |-> "mpComplete", status |-> status, sessionId |-> sessionId, fileId |-> fileId]

RECURSIVE Assembled(_, _)
\* The body multipartUpload.complete(parts) assembles: the listed parts, in
\* part-number order
Assembled(upload, parts) ==
  IF parts = {} THEN 0
  ELSE LET p == CHOOSE x \in parts : \A y \in parts : x <= y
       IN upload.length[p] + Assembled(upload, parts \ {p})

\* A handler that writes the files row before the blob store has assembled
\* the object
MpCompleteBeginRowFirst(w, sessionId, fileId, tok, parts) ==
  /\ Free(w)
  /\ LET auth == MultipartAuth(tok, sessionId, fileId, now)
         key == <<sessionId, fileId>>
         ok == /\ auth = 0
               /\ Resumable(key, tok.uploadId)
               /\ parts # {} /\ parts \subseteq mpu[tok.uploadId].parts
     IN /\ files' = IF auth = 0 /\ fileId \notin DOMAIN files
                    THEN InsertFiles({fileId}, sessionId, tok.fileSize) ELSE files
        /\ blobs' = IF ok THEN blobs \cup {key} ELSE blobs
        /\ stored' = IF ok THEN Store(key, Assembled(mpu[tok.uploadId], parts))
                     ELSE stored
        /\ mpu' = IF ok THEN [u \in DOMAIN mpu \ {tok.uploadId} |-> mpu[u]] ELSE mpu
        /\ IF auth # 0 THEN Finish(w, MpCompleteReply(sessionId, fileId, auth))
           ELSE IF ~ok THEN Finish(w, MpCompleteReply(sessionId, fileId, 500))
           ELSE Finish(w, MpCompleteReply(sessionId, fileId, 200))
  /\ UNCHANGED <<now, sessions, nextFile, tokens, sweep>>

\* Bearer check, then multipartUpload.complete(sortedParts): R2 assembles the
\* object when the upload is in progress and every listed part was uploaded.
MpCompleteBegin(w, sessionId, fileId, tok, parts) ==
  /\ Free(w)
  /\ LET auth == MultipartAuth(tok, sessionId, fileId, now)
         key == <<sessionId, fileId>>
         ok == /\ auth = 0
               /\ Resumable(key, tok.uploadId)
               /\ parts # {} /\ parts \subseteq mpu[tok.uploadId].parts
     IN /\ blobs' = IF ok THEN blobs \cup {key} ELSE blobs
        /\ stored' = IF ok THEN Store(key, Assembled(mpu[tok.uploadId], parts))
                     ELSE stored
        /\ mpu' = IF ok THEN [u \in DOMAIN mpu \ {tok.uploadId} |-> mpu[u]] ELSE mpu
        /\ IF auth # 0 THEN Finish(w, MpCompleteReply(sessionId, fileId, auth))
           ELSE IF ~ok THEN Finish(w, MpCompleteReply(sessionId, fileId, 500))
           ELSE Await(w, [op |-> "mpComplete", pc |-> "insert", since |-> now,
                          sessionId |-> sessionId, fileId |-> fileId,
                          fileSize |-> tok.fileSize])
  /\ UNCHANGED <<now, sessions, files, nextFile, tokens, sweep>>

\* multipartUpload.complete(sortedParts) called again on an upload that was
\* completed before: R2 may reject it, which MpCompleteBegin covers, or
\* resolve it again without touching the object, after which the handler goes
\* on to its insert.
MpCompleteAgain(w, sessionId, fileId, tok) ==
  /\ Free(w)
  /\ MultipartAuth(tok, sessionId, fileId, now) = 0
  /\ tok.uploadId \notin DOMAIN mpu
  /\ Await(w, [op |-> "mpComplete", pc |-> "insert", since |-> now,
                sessionId |-> sessionId, fileId |-> fileId,
                fileSize |-> tok.fileSize])
  /\ UNCHANGED <<now, sessions, files, blobs, mpu, nextFile, tokens, sweep, stored>>

\* An insert that replaces the row when the id is taken
MpCompleteInsertReplace(w) ==
  /\ req[w].op = "mpComplete" /\ req[w].pc = "insert"
  /\ files' = InsertFiles({req[w].fileId}, req[w].sessionId, req[w].fileSize)
  /\ Finish(w, MpCompleteReply(req[w].sessionId, req[w].fileId, 200))
  /\ UNCHANGED <<now, sessions, blobs, mpu, nextFile, tokens, sweep, stored>>

\* db.insert(files).values({id: fileId, sessionId, ...}); the primary key
\* rejects a second row with the same id
MpCompleteInsert(w) ==
  /\ req[w].op = "mpComplete" /\ req[w].pc = "insert"
  /\ LET sessionId == req[w].sessionId
         fileId == req[w].fileId
         thrown == fileId \in DOMAIN files
     IN /\ files' = IF thrown THEN files
                    ELSE InsertFiles({fileId}, sessionId, req[w].fileSize)
        /\ Finish(w, MpCompleteReply(sessionId, fileId, IF thrown THEN 500 ELSE 200))
  /\ UNCHANGED <<now, sessions, blobs, mpu, nextFile, tokens, sweep, stored>>

(* GET /retrieve/:retrievalCode ---------------------------------------------- *)

RetrieveReply(code, status, sessionId) ==
  [op |-> "retrieve", status |-> status, retrievalCode |-> code,
   sessionId |-> sessionId]

\* select from sessions where retrievalCode = code and uploadComplete = 1 and not deleted
SealedByCode(code) ==
  {s \in DOMAIN sessions :
     /\ sessions[s].retrievalCode = Some(code)
     /\ sessions[s].uploadComplete
     /\ notDeleted(sessions[s])}

\* expiresAt && expiresAt < new Date()
isExpired(expiresAt, t) == ~IsNull(expiresAt) /\ Val(expiresAt) < t

\* /^[A-Z0-9]{6}$/
isValidRetrievalCode(code) ==
  /\ Len(code) = 6
  /\ \A i \in 1..Len(code) : \E j \in DOMAIN chars : code[i] = chars[j]

\* The retrieve handler without its expiry check
RetrieveStatusNoExpiry(code, t) ==
  IF ~isValidRetrievalCode(code) THEN 400
  ELSE IF SealedByCode(code) = {} THEN 404
  ELSE LET s == CHOOSE x \in SealedByCode(code) : TRUE
       IN IF SessionFiles(s) = {} THEN 404 ELSE 200

\* The retrieve handler without its format check
RetrieveStatusAnyFormat(code, t) ==
  IF SealedByCode(code) = {} THEN 404
  ELSE LET s == CHOOSE x \in SealedByCode(code) : TRUE
       IN IF isExpired(sessions[s].expiresAt, t) THEN 404
          ELSE IF SessionFiles(s) = {} THEN 404
          ELSE 200

\* The status the retrieve handler answers at instant t
RetrieveStatus(code, t) ==
  IF ~isValidRetrievalCode(code) THEN 400
  ELSE IF SealedByCode(code) = {} THEN 404
  ELSE LET s == CHOOSE x \in SealedByCode(code) : TRUE
       IN IF isExpired(sessions[s].expiresAt, t) THEN 404
          ELSE IF SessionFiles(s) = {} THEN 404
          ELSE 200

\* The handler only reads the metadata store: its two selects are one read.
Retrieve(w, code) ==
  /\ Free(w)
  /\ LET status == RetrieveStatus(code, now)
     IN IF status = 200
        THEN LET s == CHOOSE x \in SealedByCode(code) : TRUE
             IN /\ tokens' = tokens \cup {createChestJWT(s, sessions[s].expiresAt, now)}
                /\ Finish(w, RetrieveReply(code, 200, Some(s)))
        ELSE /\ Finish(w, RetrieveReply(code, status, NULL))
             /\ UNCHANGED tokens
  /\ UNCHANGED <<now, sessions, files, blobs, mpu, nextFile, sweep, stored>>

(* GET /download/:fileId ----------------------------------------------------- *)

DownloadReply(fileId, tok, status) ==
  [op |-> "download", status |-> status, fileId |-> fileId, tok |-> tok]

\* File and session ids are generated UUIDs, numbered from 1 in the model;
\* 0 stands for a path segment that is no UUID.
isValidUUID(uuid) == uuid > 0

\* A handler that looks at the form of the file id before it looks at the token
DownloadBeginFormatFirst(w, fileId, tok) ==
  /\ Free(w)
  /\ LET auth == ChestAuth(tok, now)
     IN IF ~isValidUUID(fileId) THEN Finish(w, DownloadReply(fileId, tok, 400))
        ELSE IF auth # 0 THEN Finish(w, DownloadReply(fileId, tok, auth))
        ELSE Await(w, [op |-> "download", pc |-> "query", since |-> now, fileId |-> fileId,
                       tok |-> tok])
  /\ UNCHANGED <<now, sessions, files, blobs, mpu, nextFile, tokens, sweep, stored>>

\* The token is taken from the header or the query and verified; then the
\* form of the file id is looked at.
DownloadBegin(w, fileId, tok) ==
  /\ Free(w)
  /\ LET auth == ChestAuth(tok, now)
     IN IF auth # 0 THEN Finish(w, DownloadReply(fileId, tok, auth))
        ELSE IF ~isValidUUID(fileId) THEN Finish(w, DownloadReply(fileId, tok, 400))
        ELSE Await(w, [op |-> "download", pc |-> "query", since |-> now, fileId |-> fileId,
                       tok |-> tok])
  /\ UNCHANGED <<now, sessions, files, blobs, mpu, nextFile, tokens, sweep, stored>>

\* files inner join sessions where files.id = fileId and
\* files.sessionId = payload.sessionId, neither row deleted
FileWithSession(fileId, sessionId) ==
  /\ fileId \in DOMAIN files
  /\ files[fileId].sessionId = sessionId
  /\ notDeleted(files[fileId])
  /\ sessionId \in DOMAIN sessions
  /\ notDeleted(sessions[sessionId])

\* A handler that looks the file up under the chest that owns it, whatever
\* chest the token is for
DownloadStatusAnyChest(fileId, sessionId, t) ==
  IF fileId \notin DOMAIN files THEN 404
  ELSE LET own == files[fileId].sessionId
       IN IF ~FileWithSession(fileId, own) THEN 404
          ELSE IF isExpired(sessions[own].expiresAt, t) THEN 404
          ELSE IF <<own, fileId>> \notin blobs THEN 404
          ELSE 200

\* The status the download handler answers at instant t to a verified token
DownloadStatus(fileId, sessionId, t) ==
  IF ~FileWithSession(fileId, sessionId) THEN 404
  ELSE IF isExpired(sessions[sessionId].expiresAt, t) THEN 404
  ELSE IF <<sessionId, fileId>> \notin blobs THEN 404
  ELSE 200

\* The 200 response: new Response(r2Object.body, ...) with the header
\* 'Content-Length': String(result.files.fileSize)
BodyLength(sessionId, fileId) == stored[<<sessionId, fileId>>]
ContentLength(fileId) == files[fileId].fileSize

\* The join, the expiry check and R2_STORAGE.get
DownloadQuery(w) ==
  /\ req[w].op = "download" /\ req[w].pc = "query"
  /\ Finish(w, DownloadReply(req[w].fileId, req[w].tok,
       DownloadStatus(req[w].fileId, req[w].tok.sessionId, now)))
  /\ UNCHANGED <<now, sessions, files, blobs, mpu, nextFile, tokens, sweep, stored>>

(* cron/cleanup.ts: cleanupExpiredContent ------------------------------------ *)

RECURSIVE SetToSeq(_)
\* The rows of a select, in id order
SetToSeq(S) ==
  IF S = {} THEN <<>>
  ELSE LET m == CHOOSE x \in S : \A y \in S : x <= y
       IN <<m>> \o SetToSeq(S \ {m})

\* A comparison that reads a NULL column as the epoch
SqlLtNullAsEpoch(column, value) ==
  (IF IsNull(column) THEN 0 ELSE Val(column)) < value

\* lt(column, value) in SQL: a NULL column satisfies no comparison
SqlLt(column, value) == ~IsNull(column) /\ Val(column) < value

\* The expired select without withNotDeleted
selectExpiredAnyRow(currentTime) ==
  {s \in DOMAIN sessions : SqlLt(sessions[s].expiresAt, currentTime)}

\* select from sessions where not deleted and expiresAt < currentTime
selectExpired(currentTime) ==
  {s \in DOMAIN sessions :
     notDeleted(sessions[s]) /\ SqlLt(sessions[s].expiresAt, currentTime)}

\* The incomplete select with createdAt <= cutoffTime
selectIncompleteInclusive(cutoffTime) ==
  {s \in DOMAIN sessions :
     /\ notDeleted(sessions[s])
     /\ ~sessions[s].uploadComplete
     /\ sessions[s].createdAt <= cutoffTime}

\* select from sessions where not deleted and uploadComplete = 0 and createdAt < cutoffTime
selectIncomplete(cutoffTime) ==
  {s \in DOMAIN sessions :
     /\ notDeleted(sessions[s])
     /\ ~sessions[s].uploadComplete
     /\ sessions[s].createdAt < cutoffTime}

Tagged(ids, reason) == [i \in DOMAIN ids |-> [id |-> ids[i], reason |-> reason]]

SweepIdle == [pc |-> "idle", todo |-> <<>>, listed |-> {}]

\* The counters of a run as it starts: let expiredSessions = 0, ...
NoneCleaned ==
  [expiredSessions |-> 0, deletedFiles |-> 0, r2ObjectsDeleted |-> 0,
   incompleteSessions |-> 0, errors |-> 0]

\* The CleanupResult a run returns; errors is the length of its error list
SweepReply(summary) ==
  [op |-> "sweep", status |-> 0,
   expiredSessions |-> summary.expiredSessions,
   deletedFiles |-> summary.deletedFiles,
   r2ObjectsDeleted |-> summary.r2ObjectsDeleted,
   incompleteSessions |-> summary.incompleteSessions,
   errors |-> summary.errors]

\* The scheduled handler starts a run: the select of the expired sessions
SweepStart(r) ==
  /\ sweep[r].pc = "idle"
  /\ sweep' = [sweep EXCEPT ![r] =
       [pc |-> "incomplete", since |-> now,
        todo |-> Tagged(SetToSeq(selectExpired(now)), "expired"),
        listed |-> {}, fileCount |-> 0, summary |-> NoneCleaned]]
  /\ Silent
  /\ UNCHANGED <<now, sessions, files, blobs, mpu, nextFile, tokens, stored>>

\* A loop that is left after its first session
SweepNextOnce(since, todo, summary) == SweepIdle

\* The loop goes to its next session, or the run returns its summary.
SweepNext(since, todo, summary) ==
  IF todo = <<>> THEN SweepIdle
  ELSE [pc |-> "list", since |-> since, todo |-> todo, listed |-> {},
        fileCount |-> 0, summary |-> summary]

\* After the last session the run returns its summary.
SweepAnswer(todo, summary) ==
  /\ reply' = IF todo = <<>> THEN SweepReply(summary) ELSE NoReply
  /\ UNCHANGED req

\* The select of the incomplete sessions older than the cutoff; the two
\* results are concatenated into allSessionsToCleanup.
SweepIncomplete(r) ==
  /\ sweep[r].pc = "incomplete"
  /\ LET cutoffTime == now - ABANDON_AGE
         incomplete == Tagged(SetToSeq(selectIncomplete(cutoffTime)), "incomplete")
         todo == sweep[r].todo \o incomplete
     IN /\ sweep' = [sweep EXCEPT ![r] = SweepNext(sweep[r].since, todo, sweep[r].summary)]
        /\ SweepAnswer(todo, sweep[r].summary)
  /\ UNCHANGED <<now, sessions, files, blobs, mpu, nextFile, tokens, stored>>

\* The session the loop is at
Current(r) == Head(sweep[r].todo).id

\* R2_STORAGE.list({prefix: `${sessionId}/`}): the objects stored under the
\* prefix; uploads in progress are not objects
ListPrefix(sessionId) == {k \in blobs : k[1] = sessionId}

\* The select of the session's files only feeds the log and the summary;
\* then the listing of the prefix.
SweepList(r) ==
  /\ sweep[r].pc = "list"
  /\ LET objects == ListPrefix(Current(r))
     IN sweep' = [sweep EXCEPT ![r].listed = objects,
                               ![r].fileCount = Cardinality(SessionFiles(Current(r))),
                               ![r].pc = IF objects = {} THEN "softFiles" ELSE "delete"]
  /\ Silent
  /\ UNCHANGED <<now, sessions, files, blobs, mpu, nextFile, tokens, stored>>

\* Promise.all of R2_STORAGE.delete(obj.key)
SweepDelete(r) ==
  /\ sweep[r].pc = "delete"
  /\ blobs' = blobs \ sweep[r].listed
  /\ stored' = [k \in DOMAIN stored \ sweep[r].listed |-> stored[k]]
  /\ sweep' = [sweep EXCEPT ![r].pc = "softFiles", ![r].listed = {},
                            ![r].summary.r2ObjectsDeleted = @ + Cardinality(sweep[r].listed)]
  /\ Silent
  /\ UNCHANGED <<now, sessions, files, mpu, nextFile, tokens>>

\* update files set isDeleted = 1 where sessionId = ... and not deleted
SweepSoftDeleteFiles(r) ==
  /\ sweep[r].pc = "softFiles"
  /\ files' = [f \in DOMAIN files |->
       IF f \in SessionFiles(Current(r)) THEN [files[f] EXCEPT !.isDeleted = TRUE]
       ELSE files[f]]
  /\ sweep' = [sweep EXCEPT ![r].pc = "softSession",
                            ![r].summary.deletedFiles = @ + sweep[r].fileCount]
  /\ Silent
  /\ UNCHANGED <<now, sessions, blobs, mpu, nextFile, tokens, stored>>

\* if (reason === 'expired') expiredSessions++ else incompleteSessions++
Counted(summary, reason) ==
  IF reason = "expired"
  THEN [summary EXCEPT !.expiredSessions = @ + 1]
  ELSE [summary EXCEPT !.incompleteSessions = @ + 1]

\* update sessions set isDeleted = 1 where id = ... and not deleted
SweepSoftDeleteSession(r) ==
  /\ sweep[r].pc = "softSession"
  /\ sessions' = [sessions EXCEPT ![Current(r)].isDeleted = TRUE]
  /\ LET summary == Counted(sweep[r].summary, Head(sweep[r].todo).reason)
         todo == Tail(sweep[r].todo)
     IN /\ sweep' = [sweep EXCEPT ![r] = SweepNext(sweep[r].since, todo, summary)]
        /\ SweepAnswer(todo, summary)
  /\ UNCHANGED <<now, files, blobs, mpu, nextFile, tokens, stored>>

(* cleanup.ts: the failures of a run ---------------------------------------- *)

\* errors.push(...)
Errored(summary) == [summary EXCEPT !.errors = @ + 1]

\* An exception that leaves the function: the loop is abandoned
CaughtRethrown(run) == SweepIdle

\* catch (error) of the loop body: the error is recorded and the loop goes
\* to its next session
Caught(run) == SweepNext(run.since, Tail(run.todo), Errored(run.summary))

\* The select of the expired sessions throws: the outer catch records it and
\* the function returns its summary.
SweepStartFail(r) ==
  /\ sweep[r].pc = "idle"
  /\ reply' = SweepReply(Errored(NoneCleaned))
  /\ UNCHANGED <<now, sessions, files, blobs, mpu, nextFile, tokens, req, sweep, stored>>

\* The select of the incomplete sessions throws, likewise.
SweepIncompleteFail(r) ==
  /\ sweep[r].pc = "incomplete"
  /\ sweep' = [sweep EXCEPT ![r] = SweepIdle]
  /\ reply' = SweepReply(Errored(sweep[r].summary))
  /\ UNCHANGED <<now, sessions, files, blobs, mpu, nextFile, tokens, req, stored>>

\* The select of the session's files throws.
SweepFilesFail(r) ==
  /\ sweep[r].pc = "list"
  /\ sweep' = [sweep EXCEPT ![r] = Caught(sweep[r])]
  /\ SweepAnswer(Tail(sweep[r].todo), Errored(sweep[r].summary))
  /\ UNCHANGED <<now, sessions, files, blobs, mpu, nextFile, tokens, stored>>

\* A list failure that abandons the session as a failure of the database does
SweepListFailSkips(r) ==
  /\ sweep[r].pc = "list"
  /\ sweep' = [sweep EXCEPT ![r] = Caught(sweep[r])]
  /\ SweepAnswer(Tail(sweep[r].todo), Errored(sweep[r].summary))
  /\ UNCHANGED <<now, sessions, files, blobs, mpu, nextFile, tokens, stored>>

\* R2_STORAGE.list throws: the inner catch records it and the soft deletes follow.
SweepListFail(r) ==
  /\ sweep[r].pc = "list"
  /\ sweep' = [sweep EXCEPT ![r].pc = "softFiles",
                            ![r].fileCount = Cardinality(SessionFiles(Current(r))),
                            ![r].summary = Errored(@)]
  /\ Silent
  /\ UNCHANGED <<now, sessions, files, blobs, mpu, nextFile, tokens, stored>>

\* One of the deletes rejects and Promise.all with it: the objects in gone
\* were deleted all the same, the counter is not incremented, and the soft
\* deletes follow.
SweepDeleteFail(r, gone) ==
  /\ sweep[r].pc = "delete"
  /\ gone \subseteq sweep[r].listed /\ gone # sweep[r].listed
  /\ blobs' = blobs \ gone
  /\ stored' = [k \in DOMAIN stored \ gone |-> stored[k]]
  /\ sweep' = [sweep EXCEPT ![r].pc = "softFiles", ![r].listed = {},
                            ![r].summary = Errored(@)]
  /\ Silent
  /\ UNCHANGED <<now, sessions, files, mpu, nextFile, tokens>>

\* The update of the files throws.
SweepSoftDeleteFilesFail(r) ==
  /\ sweep[r].pc = "softFiles"
  /\ sweep' = [sweep EXCEPT ![r] = Caught(sweep[r])]
  /\ SweepAnswer(Tail(sweep[r].todo), Errored(sweep[r].summary))
  /\ UNCHANGED <<now, sessions, files, blobs, mpu, nextFile, tokens, stored>>

\* The update of the session throws.
SweepSoftDeleteSessionFail(r) ==
  /\ sweep[r].pc = "softSession"
  /\ sweep' = [sweep EXCEPT ![r] = Caught(sweep[r])]
  /\ SweepAnswer(Tail(sweep[r].todo), Errored(sweep[r].summary))
  /\ UNCHANGED <<now, sessions, files, blobs, mpu, nextFile, tokens, stored>>

(* ---------------------------- specifications --------------------------- *)

\* The secrets a deployment configures and one it does not
Secrets == {1, 2}
Stranger == Cardinality(Secrets) + 1

\* What a client can send as totpToken at instant t: nothing, or the code of a
\* configured or a foreign secret at a step up to two away from the server's
TotpInputs(t) ==
  {NULL} \cup {Some(generateTOTP(k, currentStep(t) + d)) :
               k \in Secrets \cup {Stranger}, d \in -(TOTP_WINDOW + 1)..(TOTP_WINDOW + 1)}

\* POST /chest of a deployment whose configuration is one of E
ChestsBehind(W, limit, E) ==
  \E w \in W, env \in E, totpToken \in TotpInputs(now) : CreateChest(w, limit, env, totpToken)

Chests(W, limit) == \E w \in W : CreateChest(w, limit, Ungated, NULL)

Uploads(W, S) ==
  \/ \E w \in W, s \in S, tok \in Presentable, n \in 1..MaxFiles :
       UploadBegin(w, s, tok, n)
  \/ \E w \in W : UploadInsert(w)
  \/ \E w \in W, f \in FileIds : UploadPut(w, f)
  \/ \E w \in W, f \in FileIds : UploadPutFail(w, f)

\* The upload endpoint when every put of the blob store resolves
UploadsDone(W, S) ==
  \/ \E w \in W, s \in S, tok \in Presentable, n \in 1..MaxFiles :
       UploadBegin(w, s, tok, n)
  \/ \E w \in W : UploadInsert(w)
  \/ \E w \in W, f \in FileIds : UploadPut(w, f)

Seals(W, S) ==
  \/ \E w \in W, s \in S, tok \in Presentable,
        ids \in FileIdInputs, d \in ValidityInputs : SealBegin(w, s, tok, ids, d)
  \/ \E w \in W, c \in Codes : SealUpdate(w, c)

\* The validityDays the API documents: 1, 3, 7, 15, or -1 for permanent
ValidValidity == {1, 3, 7, 15, -1}

\* Numbers a client can put in the validityDays field
AnyValidity == ValidValidity \cup {0, 2}

\* Seal requests whose validityDays is drawn from D
SealsWith(W, S, D) ==
  \/ \E w \in W, s \in S, tok \in Presentable,
        ids \in FileIdInputs, d \in D : SealBegin(w, s, tok, ids, d)
  \/ \E w \in W, c \in Codes : SealUpdate(w, c)

\* A seal request submitted while the chest is Open
SealOpen(w, sessionId, tok, fileIds, validityDays) ==
  OpenSession(sessionId) /\ SealBegin(w, sessionId, tok, fileIds, validityDays)

SealsOfOpen(W, S) ==
  \/ \E w \in W, s \in S, tok \in Presentable,
        ids \in FileIdInputs, d \in ValidityInputs : SealOpen(w, s, tok, ids, d)
  \/ \E w \in W, c \in Codes : SealUpdate(w, c)

\* Chunked uploads whose declared sizes and part bodies have lengths in L
MultipartsOf(W, S, L) ==
  \/ \E w \in W, s \in S, tok \in Presentable, n \in L : MpCreateBegin(w, s, tok, n)
  \/ \E w \in W : MpCreateFinish(w)
  \/ \E w \in W, s \in S, f \in FileIds, tok \in Presentable,
        p \in PartNumbers, b \in {0} \cup L : UploadPart(w, s, f, tok, p, b)
  \/ \E w \in W, s \in S, f \in FileIds, tok \in Presentable,
        ps \in SUBSET PartNumbers : MpCompleteBegin(w, s, f, tok, ps)
  \/ \E w \in W : MpCompleteInsert(w)

Multiparts(W, S) == MultipartsOf(W, S, {FileLen})

\* Part numbers a client can put in the path: the two ends of the accepted
\* range and their outer neighbours
PartInputs == {0, 1, MAX_PART_NUMBER, MAX_PART_NUMBER + 1}

\* The part endpoint alone, with any part number and an empty or a full body
PartUploads(W, S) ==
  \E w \in W, s \in S, f \in FileIds, tok \in Presentable,
     p \in PartInputs, b \in {0, FileLen} : UploadPart(w, s, f, tok, p, b)

\* The create endpoint of the multipart upload alone
MultipartCreates(W, S) ==
  \/ \E w \in W, s \in S, tok \in Presentable : MpCreateBegin(w, s, tok, FileLen)
  \/ \E w \in W : MpCreateFinish(w)

\* The read endpoints, the retrieval codes sent drawn from C
ReadsOf(W, C) ==
  \/ \E w \in W, c \in C : Retrieve(w, c)
  \/ \E w \in W, f \in FileIds, tok \in Presentable : DownloadBegin(w, f, tok)
  \/ \E w \in W : DownloadQuery(w)

Reads(W) == ReadsOf(W, Codes)

\* The first step of every endpoint that takes a bearer token, its path
\* naming any session and file, existing or not, well-formed or not
AnyPath(W) ==
  \/ \E w \in W, s \in 0..MaxSessions, tok \in Presentable : UploadBegin(w, s, tok, 1)
  \/ \E w \in W, s \in 0..MaxSessions, tok \in Presentable, ids \in SeqsUpTo(FileIds, 1) :
       SealBegin(w, s, tok, ids, 1)
  \/ \E w \in W, s \in 0..MaxSessions, tok \in Presentable :
       MpCreateBegin(w, s, tok, FileLen)
  \/ \E w \in W, s \in 0..MaxSessions, f \in 0..MaxFiles, tok \in Presentable,
        p \in PartNumbers : UploadPart(w, s, f, tok, p, FileLen)
  \/ \E w \in W, s \in 0..MaxSessions, f \in 0..MaxFiles, tok \in Presentable :
       MpCompleteBegin(w, s, f, tok, PartNumbers)
  \/ \E w \in W, f \in 0..MaxFiles, tok \in Presentable : DownloadBegin(w, f, tok)

Requests(W) ==
  Chests(W, MaxSessions) \/ Uploads(W, SessionIds) \/ Seals(W, SessionIds) \/ Multiparts(W, SessionIds) \/ Reads(W)

\* The runs of the reapers in R
SweepsOf(R) ==
  \/ \E r \in R : SweepStart(r)
  \/ \E r \in R : SweepIncomplete(r)
  \/ \E r \in R : SweepList(r)
  \/ \E r \in R : SweepDelete(r)
  \/ \E r \in R : SweepSoftDeleteFiles(r)
  \/ \E r \in R : SweepSoftDeleteSession(r)

\* One sweep per tick: runs do not overlap
Sweeps == SweepsOf({"r1"})

\* The failures of the runs of the reapers in R
SweepFailures(R) ==
  \/ \E r \in R : SweepStartFail(r)
  \/ \E r \in R : SweepIncompleteFail(r)
  \/ \E r \in R : SweepFilesFail(r)
  \/ \E r \in R : SweepListFail(r)
  \/ \E r \in R : \E gone \in SUBSET blobs : SweepDeleteFail(r, gone)
  \/ \E r \in R : SweepSoftDeleteFilesFail(r)
  \/ \E r \in R : SweepSoftDeleteSessionFail(r)

Next == Tick \/ Requests(Workers) \/ Sweeps

Spec == Init /\ [][Next]_vars

\* Two clients creating chests and sealing Open chests concurrently, at one instant.
NextSeal == Chests(Workers, MaxSessions) \/ SealsOfOpen(Workers, SessionIds)

SpecSeal == Init /\ [][NextSeal]_vars

\* One client filling and sealing chests, at one instant.
NextUpload ==
  Chests({"w1"}, MaxSessions) \/ Uploads({"w1"}, SessionIds) \/ Seals({"w1"}, SessionIds)

SpecUpload == Init /\ [][NextUpload]_vars

\* The life of one chest filled by chunked uploads, under the clock and the sweeps.
NextLife ==
  Tick \/ Chests({"w1"}, OneChest) \/ Seals({"w1"}, 1..OneChest) \/ Multiparts({"w1"}, 1..OneChest) \/ Sweeps

SpecLife == Init /\ [][NextLife]_vars

\* The life of one chest filled by uploads and read back, under the clock
\* and the sweeps.
NextRead ==
  \/ Tick
  \/ Chests({"w1"}, OneChest) \/ Uploads({"w1"}, 1..OneChest) \/ Seals({"w1"}, 1..OneChest) \/ Reads({"w1"})
  \/ Sweeps

SpecRead == Init /\ [][NextRead]_vars

\* One chest filled, sealed, retrieved by any code a client can send, and reaped
NextCodes ==
  \/ Tick
  \/ Chests({"w1"}, OneChest) \/ Uploads({"w1"}, 1..OneChest) \/ Seals({"w1"}, 1..OneChest)
  \/ ReadsOf({"w1"}, RetrievalCodes)
  \/ Sweeps

SpecCodes == Init /\ [][NextCodes]_vars

\* One client creating multipart uploads in one chest and sending parts of
\* any number, to that chest or to one that does not exist, under the clock
NextRange ==
  \/ Tick
  \/ Chests({"w1"}, OneChest) \/ MultipartCreates({"w1"}, 1..OneChest)
  \/ PartUploads({"w1"}, SessionIds)

SpecRange == Init /\ [][NextRange]_vars

\* The configurations of the TOTP gate: off, on with two secrets, on with none
Envs == {Ungated, Env(TRUE, Secrets), Env(TRUE, {})}

\* Clients creating chests behind the gate and one of them uploading into
\* the chests it was admitted to, under the clock
NextGate ==
  \/ Tick
  \/ ChestsBehind(Workers, MaxSessions, Envs)
  \/ Uploads({"w1"}, SessionIds)

SpecGate == Init /\ [][NextGate]_vars

\* Two clients uploading into the same open chest under the clock, no put
\* failing
NextShare == Tick \/ Chests({"w1"}, OneChest) \/ UploadsDone(Workers, 1..OneChest)

SpecShare == Init /\ [][NextShare]_vars

\* The steps that follow the first one of a request, and the retrieve
\* request, the retrieval codes drawn from C
Continues(W, C) ==
  \/ \E w \in W : UploadInsert(w)
  \/ \E w \in W, f \in FileIds : UploadPut(w, f)
  \/ \E w \in W, c \in C : SealUpdate(w, c)
  \/ \E w \in W : MpCreateFinish(w)
  \/ \E w \in W : MpCompleteInsert(w)
  \/ \E w \in W : DownloadQuery(w)
  \/ \E w \in W, c \in C : Retrieve(w, c)

\* One client using every endpoint on one chest, created at instant 0, under
\* the clock, with paths that name the chest, no chest, or nothing well-formed
NextAuth ==
  \/ Tick
  \/ now = 0 /\ Chests({"w1"}, OneChest)
  \/ AnyPath({"w1"})
  \/ Continues({"w1"}, {CHOOSE c \in Codes : TRUE})

SpecAuth == Init /\ [][NextAuth]_vars

(* -------------------------------- claims -------------------------------- *)

\* Worker w's seal request runs its update in this step and is answered.
SealAnswered(w) ==
  /\ req[w].op = "seal" /\ req[w].pc = "update"
  /\ req'[w] = Idle

\* The session row is Sealed.
Sealed(s) == s \in DOMAIN sessions /\ sessions[s].uploadComplete

\* C1: a seal request on a chest that is already Sealed is answered with an
\* error and leaves the session row as the first seal stored it.
C1_ResealIsError ==
  [][\A w \in Workers :
       (SealAnswered(w) /\ Sealed(req[w].sessionId))
         => (reply'.status # 200 /\ sessions' = sessions)]_vars

\* C2: of the seal requests submitted against one Open chest, the one answered
\* with success is the one whose update sealed the chest, and the code and
\* the expiry it is told are the ones stored; the other is answered an error.
C2_OneSealWins ==
  [][\A w \in Workers :
       (SealAnswered(w) /\ reply'.status = 200)
         => /\ ~Sealed(req[w].sessionId)
            /\ sessions'[req[w].sessionId].retrievalCode = reply'.retrievalCode
            /\ sessions'[req[w].sessionId].expiresAt = reply'.expiryDate]_vars

\* C3: a seal request seals the chest only when every submitted fileId is a
\* non-deleted file row of that session.
C3_SealOnlyOwnFiles ==
  [][\A w \in Workers :
       (/\ SealAnswered(w)
        /\ ~sessions[req[w].sessionId].uploadComplete
        /\ sessions'[req[w].sessionId].uploadComplete)
         => \A i \in DOMAIN req[w].fileIds :
              req[w].fileIds[i] \in SessionFiles(req[w].sessionId)]_vars

\* C4: every non-deleted file row references a session row that exists and
\* is not deleted.
C4_LiveFileHasLiveSession ==
  \A f \in DOMAIN files :
    notDeleted(files[f])
      => /\ files[f].sessionId \in DOMAIN sessions
         /\ notDeleted(sessions[files[f].sessionId])

\* The blob of file row f is stored at {sessionId}/{id}.
HasBlob(f) == <<files[f].sessionId, f>> \in blobs

\* C5: once no request is in flight, every non-deleted file row has its blob,
\* also after an upload one of whose puts failed.
C5_LiveRowHasBlob ==
  (\A w \in Workers : Free(w))
    => \A f \in DOMAIN files : notDeleted(files[f]) => HasBlob(f)

\* C6: no multipart token that still verifies belongs to a session the
\* incomplete select of a sweep started now would return.
C6_NoLiveTokenForReapable ==
  \A tok \in tokens :
    (tok.type = "multipart" /\ verifyJWT(tok, now))
      => tok.sessionId \notin selectIncomplete(now - ABANDON_AGE)

\* The sealed chests whose expiresAt has passed
ExpiredChests ==
  {s \in DOMAIN sessions :
     /\ sessions[s].uploadComplete
     /\ ~IsNull(sessions[s].expiresAt)
     /\ Val(sessions[s].expiresAt) < now}

\* The answer just sent is to a retrieve of the code of chest s.
RetrieveOf(s) ==
  reply.op = "retrieve" /\ sessions[s].retrievalCode = Some(reply.retrievalCode)

\* The answer just sent is to a download of a file of chest s that carried a
\* chest token of s.
DownloadOf(s) ==
  /\ reply.op = "download"
  /\ reply.tok.type = "chest" /\ reply.tok.sessionId = s
  /\ reply.fileId \in DOMAIN files /\ files[reply.fileId].sessionId = s

\* C7, as claimed: once expiresAt has passed, a retrieve of the chest's code
\* and a download of its files with its chest token are both answered 404.
C7_ExpiredAnswers404 ==
  \A s \in ExpiredChests :
    /\ RetrieveOf(s) => reply.status = 404
    /\ DownloadOf(s) => reply.status = 404

\* C7, amended: once expiresAt has passed, a retrieve of the chest's code is
\* answered 404, and a download of its files with its chest token is answered
\* 401 (the token expires with the chest) or 404, never with content.
C7_ExpiredNeverServed ==
  \A s \in ExpiredChests :
    /\ RetrieveOf(s) => reply.status = 404
    /\ DownloadOf(s) => reply.status \in {401, 404}

\* A download of an expired chest's file with the chest's own token was just
\* answered 401.
C7_Witness ==
  \E s \in ExpiredChests : DownloadOf(s) /\ reply.status = 401

\* A sweep run has session s in its work list.
InSweep(s) ==
  \E r \in Reapers : \E i \in DOMAIN sweep[r].todo : sweep[r].todo[i].id = s

\* C8: a sealed chest with an expiry that a sweep has reaped is in the reaped
\* state: rows deleted, no file row live, no blob under {sessionId}/.
C8_ReapedIsClean ==
  \A s \in DOMAIN sessions :
    (/\ sessions[s].uploadComplete /\ ~IsNull(sessions[s].expiresAt)
     /\ sessions[s].isDeleted /\ ~InSweep(s))
      => (ListPrefix(s) = {} /\ SessionFiles(s) = {})

\* The chest was sealed with validityDays = -1.
Permanent(s) == sessions[s].uploadComplete /\ IsNull(sessions[s].expiresAt)

\* C9: a permanent chest is in no sweep's work list and is never deleted; a
\* retrieve of its code is answered 200 while it holds a file, and a download
\* of a stored file of it with a chest token that verifies is answered 200.
C9_PermanentStays ==
  \A s \in DOMAIN sessions :
    Permanent(s)
      => /\ ~InSweep(s)
         /\ notDeleted(sessions[s])
         /\ (RetrieveOf(s) /\ SessionFiles(s) # {}) => reply.status = 200
         /\ (/\ DownloadOf(s) /\ verifyJWT(reply.tok, now)
             /\ reply.fileId \in SessionFiles(s) /\ HasBlob(reply.fileId))
              => reply.status = 200

\* Two days after its creation, with a sweep run under way, a file of a
\* permanent chest was just downloaded.
C9_Witness ==
  \E s \in DOMAIN sessions :
    /\ Permanent(s) /\ now >= sessions[s].createdAt + ABANDON_AGE
    /\ \E r \in Reapers : sweep[r].pc # "idle"
    /\ DownloadOf(s) /\ reply.status = 200

\* The Open chests whose age exceeds 48 hours
Abandoned ==
  {s \in DOMAIN sessions :
     /\ notDeleted(sessions[s])
     /\ ~sessions[s].uploadComplete
     /\ now - sessions[s].createdAt > ABANDON_AGE}

\* The sessions a work list holds for the given reason
TaggedIds(todo, reason) ==
  {todo[i].id : i \in {j \in DOMAIN todo : todo[j].reason = reason}}

C11_SealedIffCode ==
  \A s \in DOMAIN sessions :
    sessions[s].uploadComplete <=> ~IsNull(sessions[s].retrievalCode)

\* A sealed chest has been reaped and its row still holds its code.
C11_Witness ==
  \E s \in DOMAIN sessions :
    /\ sessions[s].uploadComplete /\ ~IsNull(sessions[s].retrievalCode)
    /\ sessions[s].isDeleted

\* C12: no two non-deleted sessions hold the same retrievalCode.
C12_CodesUnique ==
  \A s \in DOMAIN sessions : \A o \in DOMAIN sessions \ {s} :
    (/\ notDeleted(sessions[s]) /\ notDeleted(sessions[o])
     /\ ~IsNull(sessions[s].retrievalCode))
      => sessions[s].retrievalCode # sessions[o].retrievalCode

\* Two chests are sealed, the second one just now.
C12_Witness ==
  /\ reply.op = "seal" /\ reply.status = 200
  /\ \E o \in DOMAIN sessions \ {reply.sessionId} :
       /\ sessions[o].uploadComplete
       /\ notDeleted(sessions[o]) /\ notDeleted(sessions[reply.sessionId])

\* C13: a seal of an Open chest whose generated code is held by another
\* session is answered with an error and leaves the chest Open, with no
\* retrievalCode and no expiresAt.
C13_CollisionFailsClean ==
  [][\A w \in Workers : \A c \in Codes :
       (/\ SealUpdate(w, c)
        /\ OpenSession(req[w].sessionId)
        /\ ~CodeIsFree(req[w].sessionId, c))
         => /\ reply'.status \notin {0, 200}
            /\ ~sessions'[req[w].sessionId].uploadComplete
            /\ IsNull(sessions'[req[w].sessionId].retrievalCode)
            /\ IsNull(sessions'[req[w].sessionId].expiresAt)]_vars

\* A seal was just refused with 500 while another chest holds a code, and
\* its chest is Open.
C13_Witness ==
  /\ reply.op = "seal" /\ reply.status = 500
  /\ OpenSession(reply.sessionId)
  /\ \E o \in DOMAIN sessions \ {reply.sessionId} : ~IsNull(sessions[o].retrievalCode)

\* One client sealing one empty chest with any validityDays, under the clock.
NextExpiry ==
  Tick \/ Chests({"w1"}, OneChest) \/ SealsWith({"w1"}, 1..OneChest, AnyValidity)

SpecExpiry == Init /\ [][NextExpiry]_vars

\* C14: a seal request whose validityDays is outside {1, 3, 7, 15, -1} is
\* answered 400 and leaves the session rows as they were.
C14_BadValidityRejected ==
  [][\A w \in Workers :
       (SealAnswered(w) /\ req[w].validityDays \notin ValidValidity)
         => (reply'.status = 400 /\ sessions' = sessions)]_vars

\* C15: a seal that takes effect with validityDays d in {1, 3, 7, 15} stores
\* expiresAt = seal instant + d days, later than the seal instant and than
\* createdAt; with validityDays = -1 it stores expiresAt = NULL.
C15_ExpiryIsSealPlusDays ==
  [][\A w \in Workers :
       (/\ SealAnswered(w)
        /\ ~sessions[req[w].sessionId].uploadComplete
        /\ sessions'[req[w].sessionId].uploadComplete
        /\ req[w].validityDays \in ValidValidity)
         => LET d == req[w].validityDays
                createdAt == sessions[req[w].sessionId].createdAt
                expiresAt == sessions'[req[w].sessionId].expiresAt
            IN IF d = -1 THEN IsNull(expiresAt)
               ELSE /\ expiresAt = Some(now + d)
                    /\ Val(expiresAt) > now
                    /\ Val(expiresAt) > createdAt]_vars

\* A chest created a day earlier was just sealed for 7 days.
C15_Witness ==
  /\ reply.op = "seal" /\ reply.status = 200
  /\ sessions[reply.sessionId].createdAt < now
  /\ sessions[reply.sessionId].expiresAt = Some(now + 7)

\* One client using every endpoint on one chest, at one instant.
NextTokens ==
  \/ Chests({"w1"}, OneChest) \/ Uploads({"w1"}, 1..OneChest)
  \/ Seals({"w1"}, 1..OneChest) \/ Multiparts({"w1"}, 1..OneChest)
  \/ Reads({"w1"})

SpecTokens == Init /\ [][NextTokens]_vars

\* The step answers a request of kind op, or leaves worker w inside one.
Touches(w, op) ==
  \/ reply'.op = op
  \/ reply'.op = "none" /\ req'[w].op = op

\* The step answers 401 and writes to neither store.
Refused401 ==
  reply'.status = 401 /\ UNCHANGED <<sessions, files, blobs, mpu>>

\* C16: a request that presents a token of another type than its endpoint
\* requires is answered 401 and changes no session, file, blob or upload.
C16_WrongTypeIs401 ==
  [][\A w \in Workers : \A tok \in tokens :
       /\ (/\ tok.type # "upload"
           /\ \/ /\ Touches(w, "upload")
                 /\ \E s \in SessionIds, n \in 1..MaxFiles : UploadBegin(w, s, tok, n)
              \/ /\ Touches(w, "seal")
                 /\ \E s \in SessionIds, ids \in FileIdInputs, d \in ValidityInputs :
                      SealBegin(w, s, tok, ids, d)
              \/ /\ Touches(w, "mpCreate")
                 /\ \E s \in SessionIds : MpCreateBegin(w, s, tok, FileLen))
            => Refused401
       /\ (/\ tok.type # "multipart"
           /\ \/ /\ Touches(w, "part")
                 /\ \E s \in SessionIds, f \in FileIds, p \in PartNumbers,
                        b \in {0, FileLen} : UploadPart(w, s, f, tok, p, b)
              \/ /\ Touches(w, "mpComplete")
                 /\ \E s \in SessionIds, f \in FileIds, ps \in SUBSET PartNumbers :
                      MpCompleteBegin(w, s, f, tok, ps))
            => Refused401
       /\ (/\ tok.type # "chest"
           /\ Touches(w, "download")
           /\ \E f \in FileIds : DownloadBegin(w, f, tok))
            => Refused401]_vars

C16_Witness ==
  /\ {tok.type : tok \in tokens} = {"upload", "multipart", "chest"}
  /\ reply.op = "download" /\ reply.status = 401
  /\ reply.tok \in tokens /\ reply.tok.type = "upload"

\* One client holding the upload tokens of two chests, at one instant.
NextCross ==
  \/ Chests({"w1"}, MaxSessions) \/ Uploads({"w1"}, SessionIds)
  \/ Seals({"w1"}, SessionIds) \/ MultipartCreates({"w1"}, SessionIds)

SpecCross == Init /\ [][NextCross]_vars

\* C17: an upload, a seal or a multipart create that presents a valid upload
\* token issued for another session than the one in the path is answered 400,
\* and the step changes no session, no files row, no blob and no multipart
\* upload: neither the token's chest nor the path's chest is touched.
C17_ForeignSessionIs400 ==
  [][\A w \in Workers, s \in SessionIds : \A tok \in tokens :
       (/\ verifyUploadJWT(tok, now) /\ tok.sessionId # s
        /\ \/ /\ Touches(w, "upload")
              /\ \E n \in 1..MaxFiles : UploadBegin(w, s, tok, n)
           \/ /\ Touches(w, "seal")
              /\ \E ids \in FileIdInputs, d \in ValidityInputs :
                   SealBegin(w, s, tok, ids, d)
           \/ /\ Touches(w, "mpCreate")
              /\ MpCreateBegin(w, s, tok, FileLen))
       => /\ reply'.status = 400
          /\ UNCHANGED <<sessions, files, blobs, mpu>>]_vars

\* Two open chests exist, the valid upload tokens are all for chest 1, and an
\* upload addressed to chest 2 was just answered 400.
C17_Witness ==
  /\ DOMAIN sessions = SessionIds
  /\ OpenSession(1) /\ OpenSession(2)
  /\ \E tok \in tokens : verifyUploadJWT(tok, now) /\ tok.sessionId = 1
  /\ reply.op = "upload" /\ reply.status = 400 /\ reply.sessionId = 2

\* One client running multipart uploads into two chests, at one instant.
NextParts == Chests({"w1"}, MaxSessions) \/ Multiparts({"w1"}, SessionIds)

SpecParts == Init /\ [][NextParts]_vars

\* C18: a part upload or a multipart complete that presents a valid multipart
\* token whose session or file differs from the path is answered 403 at once:
\* no part is stored, no multipart upload is completed into a blob, and the
\* request never reaches its insert of a files row.
C18_ForeignMultipartIs403 ==
  [][\A w \in Workers, s \in SessionIds, f \in FileIds : \A tok \in tokens :
       (/\ verifyMultipartJWT(tok, now)
        /\ tok.sessionId # s \/ tok.fileId # f
        /\ \/ /\ Touches(w, "part")
              /\ \E p \in PartNumbers, b \in {0, FileLen} : UploadPart(w, s, f, tok, p, b)
           \/ /\ Touches(w, "mpComplete")
              /\ \E ps \in SUBSET PartNumbers : MpCompleteBegin(w, s, f, tok, ps))
       => /\ reply'.status = 403
          /\ req'[w] = Idle
          /\ UNCHANGED <<sessions, files, blobs, mpu>>]_vars

\* The multipart upload of file 1 in chest 1 has a part stored, chest 2
\* exists, and a complete addressed to file 1 of chest 2 was just answered 403.
C18_Witness ==
  /\ DOMAIN sessions = SessionIds
  /\ 1 \in DOMAIN mpu /\ mpu[1].key = <<1, 1>> /\ mpu[1].parts # {}
  /\ reply.op = "mpComplete" /\ reply.status = 403
  /\ reply.sessionId = 2 /\ reply.fileId = 1

\* One client filling, sealing, retrieving and downloading two chests, at one
\* instant.
NextFetch ==
  \/ Chests({"w1"}, MaxSessions) \/ Uploads({"w1"}, SessionIds)
  \/ Seals({"w1"}, SessionIds) \/ Reads({"w1"})

SpecFetch == Init /\ [][NextFetch]_vars

\* C19: when the download handler answers a verified chest token, it serves
\* content (200) only if the files row of the requested file carries the
\* session id of the token; a token of one chest presented for a file that
\* belongs to another chest is answered 404.
C19_DownloadOnlyOwnChest ==
  [][\A w \in Workers :
       (req[w].op = "download" /\ DownloadQuery(w))
       => LET f == req[w].fileId
              chest == req[w].tok.sessionId
          IN /\ reply'.status = 200
                  => f \in DOMAIN files /\ files[f].sessionId = chest
             /\ (f \in DOMAIN files /\ files[f].sessionId # chest)
                  => reply'.status = 404]_vars

\* A download that presented the chest token of chest 1 for a file of the
\* sealed chest 2, whose blob is stored, was just answered 404.
C19_Witness ==
  /\ reply.op = "download" /\ reply.status = 404
  /\ verifyChestJWT(reply.tok, now) /\ reply.tok.sessionId = 1
  /\ reply.fileId \in DOMAIN files
  /\ FileWithSession(reply.fileId, 2)
  /\ Sealed(2) /\ <<2, reply.fileId>> \in blobs

\* The session is Sealed, reaped (soft-deleted) or was never created.
SealedReapedOrMissing(s) ==
  \/ s \notin DOMAIN sessions
  \/ sessions[s].isDeleted
  \/ sessions[s].uploadComplete

C21_RowOnlyAfterAssembly ==
  [][/\ \A f \in FileIds :
          (f \notin DOMAIN files /\ f \in DOMAIN files')
          => /\ <<files'[f].sessionId, f>> \in blobs
             /\ \E w \in Workers :
                  /\ req[w].op = "mpComplete" /\ req[w].pc = "insert"
                  /\ req[w].fileId = f /\ req[w].sessionId = files'[f].sessionId
     /\ \A w \in Workers :
          (req[w] = Idle /\ reply'.op = "mpComplete" /\ reply'.status = 500)
          => files' = files /\ blobs' = blobs /\ req'[w] = Idle]_vars

\* A complete of the chunked upload of file 1, none of whose parts has been
\* uploaded, was just answered 500: the upload is still in progress and
\* neither a blob nor a files row exists for the file.
C21_Witness ==
  /\ reply.op = "mpComplete" /\ reply.status = 500 /\ reply.fileId = 1
  /\ 1 \in DOMAIN mpu /\ mpu[1].key = <<reply.sessionId, 1>> /\ mpu[1].parts = {}
  /\ 1 \notin DOMAIN files
  /\ <<reply.sessionId, 1>> \notin blobs

\* One client filling one chest with form uploads and with chunked uploads
\* whose declared sizes and part bodies vary in length, sealing it and
\* reading it back, at one instant.
NextBytes ==
  \/ Chests({"w1"}, OneChest) \/ Uploads({"w1"}, 1..OneChest)
  \/ MultipartsOf({"w1"}, 1..OneChest, Lengths)
  \/ Seals({"w1"}, 1..OneChest) \/ Reads({"w1"})

SpecBytes == Init /\ [][NextBytes]_vars

\* C22: a download answered 200 reports a Content-Length equal to the number
\* of bytes of the body it returns, which is the object stored for the file.
C22_ContentLengthIsBodyLength ==
  (reply.op = "download" /\ reply.status = 200)
  => ContentLength(reply.fileId) = BodyLength(reply.tok.sessionId, reply.fileId)

\* The sessions in the work list of run r
RunIds(r) == {sweep[r].todo[i].id : i \in DOMAIN sweep[r].todo}

\* C23: neither select of a run returns a session that an earlier run has
\* reaped, and a run whose selects return nothing returns a summary of zero
\* expired sessions, zero abandoned sessions, zero deleted files and zero
\* deleted blobs.
C23_ResweepFindsNothing ==
  [][\A r \in Reapers :
       /\ (sweep[r].pc \in {"idle", "incomplete"} /\ sweep'[r] # sweep[r])
            => \A s \in RunIds(r)' : ~sessions[s].isDeleted
       /\ (sweep[r].pc = "incomplete" /\ sweep'[r].pc = "idle")
            => reply' = SweepReply(NoneCleaned)]_vars

\* A run has just returned a summary of zeros while the chest an earlier run
\* reaped, expired and with its files, is still in the sessions table.
C23_Witness ==
  /\ reply = SweepReply(NoneCleaned)
  /\ \E s \in DOMAIN sessions :
       /\ sessions[s].isDeleted
       /\ SqlLt(sessions[s].expiresAt, now)
       /\ \E f \in DOMAIN files : files[f].sessionId = s /\ files[f].isDeleted

\* The row is one a run starting at instant t selects
Reapable(row, t) ==
  /\ notDeleted(row)
  /\ \/ SqlLt(row.expiresAt, t)
     \/ ~row.uploadComplete /\ row.createdAt < t - ABANDON_AGE

\* Chests are created, filled and abandoned, and two runs overlap each other.
NextOverlap ==
  \/ Tick \/ Chests({"w1"}, MaxSessions) \/ Uploads({"w1"}, SessionIds)
  \/ SweepsOf(Reapers)

SpecOverlap == Init /\ [][NextOverlap]_vars

\* C24: with two runs interleaving, when a run returns every session that
\* was eligible at its start is deleted, and whenever no run is in progress
\* every deleted session has no live files row and no blob under its prefix,
\* as after a single run; every run returns a summary with no error.
C24_OverlapIsOneSweep ==
  [][/\ \A r \in Reapers :
          (sweep[r].pc # "idle" /\ sweep'[r].pc = "idle")
          => /\ \A s \in DOMAIN sessions : ~Reapable(sessions'[s], sweep[r].since)
             /\ reply'.op = "sweep" /\ reply'.errors = 0
     /\ (\A r \in Reapers : sweep'[r].pc = "idle")
          => \A s \in DOMAIN sessions :
               sessions'[s].isDeleted
               => /\ \A f \in DOMAIN files' :
                       files'[f].sessionId = s => files'[f].isDeleted
                  /\ \A k \in blobs' : k[1] # s]_vars

\* Both runs had the two abandoned chests in their work lists and one of
\* them has just returned: both chests are deleted, both had files, no blob
\* is left, and the summary counts both chests although the other run had
\* already soft-deleted one of them.
C24_Witness ==
  /\ reply.op = "sweep" /\ reply.incompleteSessions = 2
  /\ \E r \in Reapers : sweep[r].pc = "softSession"
  /\ DOMAIN sessions = SessionIds
  /\ \A s \in SessionIds :
       /\ sessions[s].isDeleted
       /\ \E f \in DOMAIN files : files[f].sessionId = s
  /\ blobs = {}

\* Chests are created, filled and abandoned, and the runs of one reaper meet
\* failures of the database and of the blob store.
NextFailing ==
  \/ Tick \/ Chests({"w1"}, MaxSessions) \/ Uploads({"w1"}, SessionIds)
  \/ Sweeps \/ SweepFailures({"r1"})

\* A step of a run that is in progress
RunStep(r) ==
  sweep[r].pc # "idle" /\ (SweepsOf({r}) \/ SweepFailures({r}))

SpecFailing ==
  Init /\ [][NextFailing]_vars /\ WF_vars(RunStep("r1"))

\* Run r is inside its loop over the selected sessions
InLoop(r) == sweep[r].pc \in {"list", "delete", "softFiles", "softSession"}

\* C25: a step of the loop of a run, failing or not, either stays with its
\* session or goes on to the next selected session, and the run ends only
\* after the last one, answering its summary; every run that has started
\* returns.
C25_SweepOutlivesFailures ==
  /\ [][\A r \in Reapers :
          (InLoop(r) /\ sweep'[r] # sweep[r])
          => /\ \/ sweep'[r].todo = sweep[r].todo
                \/ sweep'[r].todo = Tail(sweep[r].todo)
             /\ sweep'[r].pc = "idle" => Len(sweep[r].todo) = 1
             /\ Len(sweep'[r].todo) < Len(sweep[r].todo) /\ sweep'[r].todo # <<>>
                  => sweep'[r].pc = "list"
             /\ sweep'[r].pc = "idle" => reply'.op = "sweep"]_vars
  /\ \A r \in Reapers : (sweep[r].pc # "idle") ~> (sweep[r].pc = "idle")

\* A run has just returned a summary with one error and one abandoned chest
\* reaped: the update of the files of one chest failed, that chest is still
\* live, and the other selected chest was reaped all the same.
C25_Witness ==
  /\ reply.op = "sweep" /\ reply.errors = 1 /\ reply.incompleteSessions = 1
  /\ DOMAIN sessions = SessionIds
  /\ ~sessions[1].isDeleted /\ sessions[2].isDeleted
  /\ Reapable(sessions[1], now)

\* Some sealed, non-deleted chest that has not expired at instant t holds code.
HeldAt(code, t) ==
  \E s \in SealedByCode(code) : ~isExpired(sessions[s].expiresAt, t)

\* C26: a retrieve request whose code does not match ^[A-Z0-9]{6}$ is answered
\* 400, one whose well-formed code no sealed, unexpired, non-deleted chest
\* holds is answered 404, and neither issues a chest token.
C26_BadCodeIs400UnknownIs404 ==
  [][\A w \in Workers : \A c \in RetrievalCodes :
       (Touches(w, "retrieve") /\ Retrieve(w, c))
       => /\ ~isValidRetrievalCode(c) => reply'.status = 400
          /\ (isValidRetrievalCode(c) /\ ~HeldAt(c, now)) => reply'.status = 404
          /\ reply'.status \in {400, 404} => tokens' = tokens /\ IsNull(reply'.sessionId)]_vars

\* A malformed code was refused while a chest with a file could be retrieved.
C26_Witness ==
  /\ reply.op = "retrieve" /\ reply.status = 400
  /\ reply.retrievalCode \in Malformed
  /\ \E c \in Codes : HeldAt(c, now) /\ RetrieveStatus(c, now) = 200

\* The part number or the body of a part upload is one the handler refuses.
BadPart(partNumber, byteLength) ==
  partNumber < 1 \/ partNumber > MAX_PART_NUMBER \/ byteLength = 0

MatchesNone(totpToken, secrets, t) ==
  \A k \in secrets : \A i \in -1..1 :
    Val(totpToken) # generateTOTP(k, currentStep(t) + i)

\* C28: behind an enabled TOTP gate with configured secrets, a createChest
\* request without a code, or with a code that matches none of the secrets
\* within one time step either side of now, is answered 401 and creates
\* neither a session row nor an upload token.
C28_NoTotpNoChest ==
  [][reply'.op = "createChest"
     => \A w \in Workers : \A env \in Envs : \A totpToken \in TotpInputs(now) :
          (/\ env.REQUIRE_TOTP /\ env.TOTP_SECRETS # {}
           /\ IF IsNull(totpToken) THEN TRUE
              ELSE MatchesNone(totpToken, env.TOTP_SECRETS, now)
           /\ CreateChest(w, MaxSessions, env, totpToken))
          => /\ reply'.status = 401
             /\ sessions' = sessions /\ tokens' = tokens]_vars

\* A createChest request was refused 401 after another one was admitted and
\* while a further chest could still be created.
C28_Witness ==
  /\ reply.op = "createChest" /\ reply.status = 401
  /\ Cardinality(DOMAIN sessions) = 1
  /\ Cardinality(tokens) = 1

\* The file ids of the upload requests in flight.
InFlight == UNION {req[w].fileIds : w \in {x \in Workers : req[x].op = "upload"}}

\* The non-deleted files of all chests.
Held == UNION {SessionFiles(s) : s \in DOMAIN sessions}

\* C29: when upload requests on one open chest interleave and all succeed, no
\* step loses or rewrites a files row, a request adds rows only under its own
\* file ids, its 200 response lists exactly its own ids, which no other
\* request holds, its rows lie in the chest it named, and once every request
\* has returned the non-deleted files are exactly the ids handed out, each
\* under one row.
C29_UploadsAccumulate ==
  /\ [][/\ \A f \in DOMAIN files : f \in DOMAIN files' /\ files'[f] = files[f]
        /\ \A w \in Workers :
             (req[w].op = "upload" /\ req'[w] # req[w])
             => /\ DOMAIN files' \ DOMAIN files \subseteq req[w].fileIds
                /\ \A x \in Workers \ {w} :
                     req[x].op = "upload" => req[x].fileIds \cap req[w].fileIds = {}
                /\ req'[w] = Idle
                     => /\ reply'.op = "upload" /\ reply'.status = 200
                        /\ reply'.uploadedFiles = req[w].fileIds
                        /\ \A f \in req[w].fileIds :
                             /\ f \in DOMAIN files'
                             /\ files'[f].sessionId = req[w].sessionId
                             /\ notDeleted(files'[f])]_vars
  /\ [](sessions # <<>> => Held \cup InFlight = 1..nextFile)
  /\ []((sessions # <<>> /\ \A w \in Workers : req[w] = Idle) => Held = 1..nextFile)

\* The second client's request began after the first one's and has returned
\* 200 with its own file while the first one, its row inserted, is in flight.
C29_Witness ==
  /\ reply.op = "upload" /\ reply.status = 200 /\ reply.uploadedFiles = {2}
  /\ req["w2"] = Idle
  /\ req["w1"].op = "upload" /\ req["w1"].fileIds = {1} /\ req["w1"].inserted
  /\ SessionFiles(1) = {1, 2}

\* The exp a chest token minted at instant t for session s is to carry.
ChestExp(s, t) ==
  IF IsNull(sessions[s].expiresAt) THEN t + 365 ELSE Val(sessions[s].expiresAt)

\* C30: a retrieve answered 200 mints one chest token, for the retrieved
\* session, whose exp is the session's expiresAt, or now + 365 days for a
\* permanent chest; so every chest token of an expiring chest carries the
\* chest's expiresAt and none verifies once that instant has passed.
C30_ChestTokenDiesWithChest ==
  /\ [][(reply'.op = "retrieve" /\ reply'.status = 200)
        => LET s == Val(reply'.sessionId)
               minted == [type |-> "chest", sessionId |-> s, exp |-> ChestExp(s, now)]
           IN /\ minted \in tokens'
              /\ tokens' \ tokens \subseteq {minted}]_vars
  /\ [](\A tok \in tokens :
          (tok.type = "chest" /\ ~IsNull(sessions[tok.sessionId].expiresAt))
          => /\ tok.exp = Val(sessions[tok.sessionId].expiresAt)
             /\ now > Val(sessions[tok.sessionId].expiresAt) => ~verifyChestJWT(tok, now))

\* A chest token of an expiring chest is held after the chest's expiry, and
\* a download that presented it was refused.
C30_Witness ==
  /\ \E tok \in tokens :
       /\ tok.type = "chest"
       /\ ~IsNull(sessions[tok.sessionId].expiresAt)
       /\ now > Val(sessions[tok.sessionId].expiresAt)
       /\ reply.op = "download" /\ reply.tok = tok /\ reply.status = 401

\* The token is missing, or is not an unexpired token of the given type that
\* this server signed.
Unverified(tok, type, t) ==
  IF tok = NoToken THEN TRUE
  ELSE tok \notin tokens \/ tok.type # type \/ t > tok.exp

\* The step answers 401 and changes nothing else.
Quiet401 ==
  /\ reply'.status = 401
  /\ UNCHANGED <<now, sessions, files, blobs, mpu, nextFile, tokens, req, sweep, stored>>

C32_BlobFailureStillReaps ==
  [][\A r \in Reapers :
       /\ (/\ sweep[r].pc \in {"list", "delete"}
           /\ \/ SweepListFail(r)
              \/ \E gone \in SUBSET blobs : SweepDeleteFail(r, gone))
          => /\ sweep'[r].pc = "softFiles"
             /\ sweep'[r].summary.errors = sweep[r].summary.errors + 1
             /\ sweep'[r].todo = sweep[r].todo
             /\ UNCHANGED <<sessions, files>>
       /\ (/\ sweep[r].pc = "softSession"
           /\ sweep'[r] # sweep[r]
           /\ IF sweep'[r].pc = "idle"
              THEN reply'.errors = sweep[r].summary.errors
              ELSE sweep'[r].summary.errors = sweep[r].summary.errors)
          => /\ sessions'[Head(sweep[r].todo).id].isDeleted
             /\ \A f \in DOMAIN files' :
                  files'[f].sessionId = Head(sweep[r].todo).id => files'[f].isDeleted]_vars

\* A run has ended with one error and one abandoned chest reaped: the chest
\* and its file are marked deleted while its blob, which the run failed to
\* delete, is still stored.
C32_Witness ==
  /\ reply.op = "sweep" /\ reply.errors = 1
  /\ reply.incompleteSessions = 1 /\ reply.r2ObjectsDeleted = 0
  /\ \E f \in DOMAIN files :
       /\ files[f].isDeleted /\ sessions[files[f].sessionId].isDeleted
       /\ <<files[f].sessionId, f>> \in blobs

(* ------------------------- the age of a chest --------------------------- *)

\* The upload tokens the server has handed out
UploadTokens == {tok \in tokens : tok.type = "upload"}

\* The three endpoints that take an upload token, called with one
Holders(W, S) ==
  \/ \E w \in W, s \in S, tok \in UploadTokens, n \in 1..MaxFiles :
       UploadBegin(w, s, tok, n)
  \/ \E w \in W : UploadInsert(w)
  \/ \E w \in W, f \in FileIds : UploadPut(w, f)
  \/ \E w \in W, s \in S, tok \in UploadTokens,
        ids \in FileIdInputs, d \in ValidityInputs : SealBegin(w, s, tok, ids, d)
  \/ \E w \in W, c \in Codes : SealUpdate(w, c)
  \/ \E w \in W, s \in S, tok \in UploadTokens : MpCreateBegin(w, s, tok, FileLen)
  \/ \E w \in W : MpCreateFinish(w)

\* One chest whose holder keeps calling with its upload token while the
\* clock runs and the sweeps pass.
NextAge ==
  Tick \/ Chests({"w1"}, OneChest) \/ Holders({"w1"}, 1..OneChest) \/ Sweeps

SpecAge == Init /\ [][NextAge]_vars

\* The requests made with an upload token
UploadTokenOps == {"upload", "seal", "mpCreate"}

\* A run has selected session s as abandoned and has not yet returned.
BeingReaped(s) ==
  \E r \in Reapers :
    /\ sweep[r].pc # "idle"
    /\ \E i \in DOMAIN sweep[r].todo :
         sweep[r].todo[i].id = s /\ sweep[r].todo[i].reason = "incomplete"

\* C33: an upload, a seal or a multipart create is let past its bearer check
\* only while the chest is at most 24 h old; a request on a chest older than
\* that is answered without touching any store; and while a run holds a chest
\* selected as abandoned, none of these requests is in flight on that chest
\* and none is answered 200.
C33_StaleTokenRejected ==
  [][/\ \A w \in Workers :
          (Free(w) /\ req'[w].op \in UploadTokenOps)
            => now <= sessions[req'[w].sessionId].createdAt + UPLOAD_TTL
     /\ (/\ reply'.op \in UploadTokenOps
         /\ reply'.sessionId \in DOMAIN sessions
         /\ now > sessions[reply'.sessionId].createdAt + UPLOAD_TTL
         /\ req' = req)
        => /\ reply'.status # 200
           /\ UNCHANGED <<sessions, files, blobs, mpu, nextFile, tokens>>
     /\ \A s \in DOMAIN sessions :
          BeingReaped(s) =>
            /\ \A w \in Workers :
                 req'[w].op \in UploadTokenOps => req'[w].sessionId # s
            /\ ~(reply'.op \in UploadTokenOps /\ reply'.sessionId = s
                 /\ reply'.status = 200)]_vars

\* A request that presents the upload token of its own chest is answered 401,
\* the chest being more than 24 h old and selected as abandoned by a run.
C33_Witness ==
  /\ reply.op \in UploadTokenOps /\ reply.status = 401
  /\ reply.sessionId \in DOMAIN sessions
  /\ now > sessions[reply.sessionId].createdAt + UPLOAD_TTL
  /\ BeingReaped(reply.sessionId)

(* ------------------------- rows after the seal -------------------------- *)

\* C34: a step never inserts a files row for a session that was Sealed
\* before the step: every live row of such a session after the step was a
\* row of it before.
C34_NoRowAfterSeal ==
  [][\A s \in DOMAIN sessions :
       sessions[s].uploadComplete
         => \A f \in DOMAIN files' :
              (files'[f].sessionId = s /\ ~files'[f].isDeleted)
                => f \in DOMAIN files]_vars

\* Two clients filling and sealing one chest concurrently, at one instant.
NextRace ==
  \/ Chests({"w1"}, OneChest) \/ UploadsDone(Workers, 1..OneChest)
  \/ Seals(Workers, 1..OneChest)

SpecRace == Init /\ [][NextRace]_vars

\* The fileIds a seal request submitted, as a set
Submitted(w) == {req[w].fileIds[i] : i \in DOMAIN req[w].fileIds}

\* C35: when a seal's update makes a chest Sealed and every fileId the
\* request submitted is then a non-deleted file of the chest, the chest has
\* no other non-deleted file: the files of the chest at that instant are the
\* submitted ones, whatever ran since the seal's file check.
C35_SealedFilesAreSubmitted ==
  [][\A w \in Workers :
       (/\ req[w].op = "seal"
        /\ ~sessions[req[w].sessionId].uploadComplete
        /\ sessions'[req[w].sessionId].uploadComplete
        /\ Submitted(w) \subseteq SessionFiles(req[w].sessionId))
         => \A f \in DOMAIN files' :
              (files'[f].sessionId = req[w].sessionId /\ ~files'[f].isDeleted)
                => f \in Submitted(w)]_vars

(* ------------------------ the code a seal returns ----------------------- *)

\* C36: a retrieve of the code stored by a seal, made while the chest is
\* neither expired nor deleted, is answered 200 for that chest and hands out
\* a chest token for it, whatever files the chest holds.
C36_SealedCodeRetrieves ==
  [][reply'.op = "retrieve" =>
       \A s \in DOMAIN sessions :
         (/\ sessions[s].uploadComplete /\ notDeleted(sessions[s])
          /\ sessions[s].retrievalCode = Some(reply'.retrievalCode)
          /\ ~isExpired(sessions[s].expiresAt, now))
           => /\ reply'.status = 200
              /\ reply'.sessionId = Some(s)
              /\ \E tok \in tokens' : tok.type = "chest" /\ tok.sessionId = s]_vars

(* --------------------------- after the reaper --------------------------- *)

\* C37: a session whose row a run has marked deleted has no blob under its
\* prefix {sessionId}/, in that state and in every later one.
C37_NoBlobAfterReap ==
  \A s \in DOMAIN sessions : sessions[s].isDeleted => ListPrefix(s) = {}

(* -------------------------- forward only -------------------------------- *)

\* C38: no step takes a row backwards: a session row stays, a Sealed session
\* stays Sealed and keeps its retrievalCode and its expiresAt, and a deleted
\* session or file stays deleted.
C38_LifecycleForward ==
  [][/\ \A s \in DOMAIN sessions :
          /\ s \in DOMAIN sessions'
          /\ sessions[s].uploadComplete =>
               /\ sessions'[s].uploadComplete
               /\ sessions'[s].retrievalCode = sessions[s].retrievalCode
               /\ sessions'[s].expiresAt = sessions[s].expiresAt
          /\ sessions[s].isDeleted => sessions'[s].isDeleted
     /\ \A f \in DOMAIN files :
          /\ f \in DOMAIN files'
          /\ files[f].isDeleted => files'[f].isDeleted]_vars

\* A second seal has been answered on a Sealed chest that holds a file, and
\* the chest keeps the code the first seal stored.
C38_Witness ==
  /\ reply.op = "seal" /\ reply.status = 200
  /\ sessions[reply.sessionId].uploadComplete
  /\ sessions[reply.sessionId].retrievalCode # reply.retrievalCode
  /\ \E f \in DOMAIN files : files[f].sessionId = reply.sessionId

(* ------------------------ a complete sent twice ------------------------- *)

\* One chest filled by chunked uploads whose completes are repeated, left
\* unsealed under the clock and the sweeps.
NextTwice ==
  \/ Tick \/ Chests({"w1"}, OneChest) \/ Multiparts({"w1"}, 1..OneChest)
  \/ \E s \in 1..OneChest, f \in FileIds, tok \in tokens :
       MpCompleteAgain("w1", s, f, tok)
  \/ Sweeps

SpecTwice == Init /\ [][NextTwice]_vars

\* C39: a step of a multipart complete leaves every files row that exists as
\* it is and adds at most the one row of its fileId, so a complete repeated
\* for a fileId that has its row writes nothing.
C39_CompleteCommitsOnce ==
  [][(\/ reply'.op = "mpComplete"
      \/ \E w \in Workers : Free(w) /\ req'[w].op = "mpComplete")
       => /\ \A f \in DOMAIN files : f \in DOMAIN files' /\ files'[f] = files[f]
          /\ \A f \in DOMAIN files' \ DOMAIN files :
               reply'.op = "mpComplete" /\ reply'.fileId = f]_vars

\* A complete sent again with a multipart token that still verifies, for a
\* fileId whose row is written, has been answered an error.
C39_Witness ==
  /\ reply.op = "mpComplete" /\ reply.status = 500
  /\ reply.fileId \in DOMAIN files
  /\ \E tok \in tokens :
       /\ verifyMultipartJWT(tok, now)
       /\ tok.fileId = reply.fileId /\ tok.sessionId = reply.sessionId

====
